---- MODULE Spec2Model ----
(***************************************************************************)
(* A model of keal's UI loop (src/src/ui/mod.rs: Keal::update,             *)
(* Keal::render, Keal::update_input, Keal::handle_action) together with    *)
(* the Async Manager it talks to.  The manager (ui/async_manager.rs) is    *)
(* not among the source files; its worker thread, kill(), current() and    *)
(* wait() are modelled from the specification (sections 4.1, 4.3 and 5).   *)
(*                                                                         *)
(* Texts are sequences of one-character strings, so that prefix routing    *)
(* and the format!("{} {}") of ChangeQuery are computed, not assumed.      *)
(***************************************************************************)
EXTENDS Integers, Sequences, FiniteSets, TLC

\* ------------------------------------------------------------------ bounds

\* How many UI events (TextInput / Launch messages) the user produces.
MaxUser == 3

\* ------------------------------------------------------------- state

VARIABLES
    \* Keal (src/src/ui/mod.rs:108-125)
    input,        \* Keal.input
    selected,     \* Keal.selected
    entries,      \* Keal.entries.list
    icons,        \* Keal.icons: "default" or "loaded"
    msgs,         \* the channel behind message_sender / message_rec
    uiPc,         \* where the UI thread is: running, rendering, waitLock,
                  \* waitChild, panicked, execed
    iconPc,       \* the icon-loading thread: loading or done
    \* AsyncManager (modelled from the specification)
    events,       \* the UI -> worker channel
    workerPc,     \* idle, debounce, query or dead
    gen,          \* generation counter
    wtext,        \* text of the search in flight
    killed,       \* kill() was called on the search in flight (reset when it ends)
    current,      \* plugin addressed by the prefix of the last search, or "none"
    mentries,     \* entries of the last completed search
    lock,         \* holder of the matcher data lock: free, ui or worker
    child,        \* the spawned side effect wait() waits for: none or running
    \* history (not program state)
    budget,       \* UI events the user may still produce
    sent,         \* number of UpdateInput events the UI sent
    fence,        \* generation of the UpdateInput sent right after the last kill()
    observed,     \* per generation, how many Entries messages the UI received
    cancelledEarly, \* generations cancelled before their pass completed
    lastAction,   \* the Action message the UI handled last
    dispatcher,   \* state of the specification's dispatcher state machine
    stdout        \* lines printed

uiVars == <<input, selected, entries, icons, uiPc>>
chanVars == <<msgs, events, iconPc>>
workerVars == <<workerPc, gen, wtext, killed, current, mentries, lock, child>>
histVars == <<budget, sent, fence, observed, cancelledEarly, lastAction, dispatcher, stdout>>
vars == <<uiVars, chanVars, workerVars, histVars>>

\* ------------------------------------------------------------- texts

SP == " "

\* Texts the user types, and texts plugin actions carry.
UserTexts == { <<"b">>, <<"r", SP, "a">> }
ActionTexts == { <<"b">> }

\* ---------------------------------------------------- registry (spec 4.3)

\* The ordered plugin list.
Plugins == <<"run", "app">>

Prefix(p) == IF p = "run" THEN <<"r">> ELSE <<"p">>

\* Each plugin's candidate names, in entry-registration order.
Candidates(p) ==
    IF p = "run" THEN << <<"a">>, <<"a", "b">> >>
                 ELSE << <<"b">> >>

StartsWith(s, pre) ==
    /\ Len(pre) <= Len(s)
    /\ SubSeq(s, 1, Len(pre)) = pre

\* Mutant: the prefix is recognised without the space that ends it.
ActivePluginNoSpace(text) ==
    IF \E i \in 1..Len(Plugins) : StartsWith(text, Prefix(Plugins[i]))
    THEN Plugins[CHOOSE i \in 1..Len(Plugins) :
                    StartsWith(text, Prefix(Plugins[i]))]
    ELSE "none"

\* The plugin whose "<prefix> " the text begins with, or "none".
ActivePlugin(text) ==
    IF \E i \in 1..Len(Plugins) : StartsWith(text, Prefix(Plugins[i]) \o <<SP>>)
    THEN Plugins[CHOOSE i \in 1..Len(Plugins) :
                    StartsWith(text, Prefix(Plugins[i]) \o <<SP>>)]
    ELSE "none"

\* The query a plugin is asked: prefix-stripped in single-plugin mode.
EffectiveQuery(text) ==
    IF ActivePlugin(text) = "none" THEN text
    ELSE SubSeq(text, Len(Prefix(ActivePlugin(text))) + 2, Len(text))

\* ------------------------------------------------------ matcher (spec 4.2)

RECURSIVE IsSubseq(_, _)
IsSubseq(q, c) ==
    IF q = <<>> THEN TRUE
    ELSE IF c = <<>> THEN FALSE
    ELSE IF Head(q) = Head(c) THEN IsSubseq(Tail(q), Tail(c))
    ELSE IsSubseq(q, Tail(c))

\* Rank of a matching candidate: constant for the empty query, otherwise
\* higher for an earlier first match and for a shorter candidate.
Rank(q, c) ==
    IF q = <<>> THEN 0
    ELSE (IF Head(q) = Head(c) THEN 10 ELSE 5) - Len(c)

\* ------------------------------------------------- search pass (spec 4.1)

RECURSIVE PluginEntries(_, _, _)
PluginEntries(p, q, i) ==
    IF i > Len(Candidates(p)) THEN <<>>
    ELSE (IF IsSubseq(q, Candidates(p)[i])
          THEN << [plugin |-> p, index |-> i, name |-> Candidates(p)[i],
                   rank |-> Rank(q, Candidates(p)[i])] >>
          ELSE <<>>) \o PluginEntries(p, q, i + 1)

RECURSIVE Merge(_, _, _)
Merge(ps, q, i) ==
    IF i > Len(ps) THEN <<>>
    ELSE PluginEntries(ps[i], q, 1) \o Merge(ps, q, i + 1)

\* Mutant: e goes in front of the entries of its own rank.
RECURSIVE InsertByRankUnstable(_, _)
InsertByRankUnstable(e, l) ==
    IF l = <<>> THEN <<e>>
    ELSE IF Head(l).rank > e.rank
         THEN <<Head(l)>> \o InsertByRankUnstable(e, Tail(l))
    ELSE <<e>> \o l

\* Stable insertion of e into a list sorted by non-increasing rank.
RECURSIVE InsertByRank(_, _)
InsertByRank(e, l) ==
    IF l = <<>> THEN <<e>>
    ELSE IF Head(l).rank >= e.rank THEN <<Head(l)>> \o InsertByRank(e, Tail(l))
    ELSE <<e>> \o l

RECURSIVE SortByRank(_)
SortByRank(l) ==
    IF l = <<>> THEN <<>>
    ELSE InsertByRank(l[Len(l)], SortByRank(SubSeq(l, 1, Len(l) - 1)))

\* The entry list of one completed pass over the text.
QueryPass(text) ==
    SortByRank(Merge(IF ActivePlugin(text) = "none" THEN Plugins
                     ELSE <<ActivePlugin(text)>>,
                     EffectiveQuery(text), 1))

Label(e) == [plugin |-> e.plugin, index |-> e.index]

Labels(l) == { Label(l[i]) : i \in 1..Len(l) }

NoLabel == [plugin |-> "none", index |-> 0]

\* ------------------------------------------------------------- messages

TextInputMsg(t) == [type |-> "TextInput", text |-> t]
LaunchMsg(l) == [type |-> "Launch", label |-> l]
IconMsg == [type |-> "IconCacheLoaded"]
EntriesMsg(g, l) == [type |-> "Entries", gen |-> g, list |-> l]
\* An Action message; it also carries (for the history only) whether the
\* launch named a label, whether the label resolved, and the plugin of the
\* entry when that plugin was the active one as the launch was resolved.
ActionMsg(k, t, l, r) ==
    [type |-> "Action", kind |-> k, text |-> t, labelled |-> l # NoLabel,
     resolved |-> r,
     via |-> IF r /\ l.plugin = current THEN current ELSE "none"]

UpdateInputEvent(t, u) == [type |-> "UpdateInput", text |-> t, from_user |-> u]
LaunchEvent(l) == [type |-> "Launch", label |-> l]

\* The actions a plugin may answer a launch with.
PluginActions ==
    { <<"None", <<>> >>, <<"Exec", <<>> >>, <<"Fork", <<>> >>,
      <<"WaitAndClose", <<>> >>, <<"PrintAndClose", <<"m">> >> }
    \cup { <<"ChangeInput", t>> : t \in ActionTexts }
    \cup { <<"ChangeQuery", t>> : t \in ActionTexts }

NoAction == [kind |-> "none", labelled |-> FALSE, resolved |-> FALSE, via |-> "none"]

Alive == uiPc \notin {"panicked", "execed"}

HeadIs(q, type) == q # <<>> /\ Head(q).type = type

Init ==
    /\ input = <<>>
    /\ selected = 0
    /\ entries = <<>>
    /\ icons = "default"
    /\ msgs = <<>>
    /\ uiPc = "running"
    /\ iconPc = "loading"
    /\ events = <<>>
    /\ workerPc = "idle"
    /\ gen = 0
    /\ wtext = <<>>
    /\ killed = FALSE
    /\ current = "none"
    /\ mentries = <<>>
    /\ lock = "free"
    /\ child = "none"
    /\ budget = MaxUser
    /\ sent = 0
    /\ fence = 0
    /\ observed = [g \in 1..MaxUser |-> 0]
    /\ cancelledEarly = {}
    /\ lastAction = NoAction
    /\ dispatcher = "Idle"
    /\ stdout = <<>>

\* ------------------------------------------------- the user and the icons

\* A UI event reaches the message channel as Message::TextInput.
UserTextInput(t) ==
    /\ Alive
    /\ budget > 0
    /\ budget' = budget - 1
    /\ msgs' = Append(msgs, TextInputMsg(t))
    /\ UNCHANGED <<uiVars, events, iconPc, workerVars,
                   sent, fence, observed, cancelledEarly, lastAction, dispatcher, stdout>>

\* A UI event reaches the message channel as Message::Launch, carrying the
\* label of an entry on display, or None.
UserLaunch(l) ==
    /\ Alive
    /\ budget > 0
    /\ budget' = budget - 1
    /\ msgs' = Append(msgs, LaunchMsg(l))
    /\ UNCHANGED <<uiVars, events, iconPc, workerVars,
                   sent, fence, observed, cancelledEarly, lastAction, dispatcher, stdout>>

\* The thread Keal::new spawns: it sends the icon cache and ends.
IconThread ==
    /\ Alive
    /\ iconPc = "loading"
    /\ iconPc' = "done"
    /\ msgs' = Append(msgs, IconMsg)
    /\ UNCHANGED <<uiVars, events, workerVars, histVars>>

\* ------------------------------------------ the manager as the UI calls it

\* AsyncManager::send: enqueue, never block.
ManagerSend(q, e) == Append(q, e)

\* AsyncManager kill(): the search in flight, if any, is cancelled.
KillFlag == killed \/ workerPc \in {"debounce", "query"}

KillCancels == IF workerPc \in {"debounce", "query"} THEN {gen} ELSE {}

\* ------------------------------------------------------ Keal::update

Min(a, b) == IF a <= b THEN a ELSE b

\* usize::saturating_sub
SatSub(a, b) == IF a >= b THEN a - b ELSE 0

\* The selection keys of one frame: Down (or Ctrl-J, Ctrl-N), then Up (or
\* Ctrl-K, Ctrl-P).
KeySelect(sel, len, down, up) ==
    LET s1 == IF down THEN Min(sel + 1, SatSub(len, 1)) ELSE sel
    IN  IF up THEN SatSub(s1, 1) ELSE s1

\* Mutant: a frame that finds two messages takes both and applies the first.
TryRecvRestSkips(q) == IF Len(q) >= 2 THEN Tail(Tail(q)) ELSE Tail(q)

\* What try_recv leaves in the channel after Ok(message).
TryRecvRest(q) == Tail(q)

\* Entries::new: the list is taken as delivered.
EntriesNew(list) == list

\* Mutant: the separating space is left out.
ComposeQueryNoSpace(prefix, new) == prefix \o new

\* format!("{} {}", plugin.prefix, new)
ComposeQuery(prefix, new) == prefix \o <<SP>> \o new

\* Mutant: the event carries the input as it was before the assignment.
UpdateInputStale(text, from_user) ==
    /\ input' = text
    /\ events' = ManagerSend(events, UpdateInputEvent(input, from_user))
    /\ sent' = sent + 1

\* Mutant: the event is sent twice.
UpdateInputTwice(text, from_user) ==
    /\ input' = text
    /\ events' = ManagerSend(ManagerSend(events, UpdateInputEvent(text, from_user)),
                             UpdateInputEvent(text, from_user))
    /\ sent' = sent + 1

\* Keal::update_input
UpdateInput(text, from_user) ==
    /\ input' = text
    /\ events' = ManagerSend(events, UpdateInputEvent(text, from_user))
    /\ sent' = sent + 1

\* The state the dispatcher of the specification is in after an action of
\* the given kind; a terminal state is kept.
Dispatch(state) == IF dispatcher = "Idle" THEN state ELSE dispatcher

\* Mutant: Action::None re-submits the current input.
HandleNoneResubmits ==
    /\ UpdateInput(input, FALSE)
    /\ UNCHANGED <<entries, icons, uiPc, killed, fence, cancelledEarly,
                   dispatcher, stdout>>

\* Action::None => ()
HandleNone ==
    UNCHANGED <<input, events, sent, entries, icons, uiPc, killed, fence,
                cancelledEarly, dispatcher, stdout>>

\* Mutant: ChangeInput puts the active plugin's prefix in front, as
\* ChangeQuery does.
HandleChangeInputPrefixed(new) ==
    /\ killed' = KillFlag
    /\ cancelledEarly' = cancelledEarly \cup KillCancels
    /\ UpdateInput(IF current # "none" THEN Prefix(current) \o <<SP>> \o new
                   ELSE new, FALSE)
    /\ fence' = sent'
    /\ UNCHANGED <<entries, icons, uiPc, dispatcher, stdout>>

\* Action::ChangeInput(new): kill(), then update_input(new, false)
HandleChangeInput(new) ==
    /\ killed' = KillFlag
    /\ cancelledEarly' = cancelledEarly \cup KillCancels
    /\ UpdateInput(new, FALSE)
    /\ fence' = sent'
    /\ UNCHANGED <<entries, icons, uiPc, dispatcher, stdout>>

\* Mutant: ChangeQuery takes the text as it is, as ChangeInput does.
HandleChangeQueryVerbatim(new) ==
    /\ UpdateInput(new, FALSE)
    /\ UNCHANGED <<entries, icons, uiPc, killed, fence, cancelledEarly,
                   dispatcher, stdout>>

\* Action::ChangeQuery(new): the prefix of current(), if any, is put in front
HandleChangeQuery(new) ==
    /\ UpdateInput(IF current # "none" THEN ComposeQuery(Prefix(current), new)
                   ELSE new, FALSE)
    /\ UNCHANGED <<entries, icons, uiPc, killed, fence, cancelledEarly,
                   dispatcher, stdout>>

\* Action::Exec(command): let _ = command.0.exec(); exec returns only when
\* it failed, and the error is dropped.
HandleExec(outcome) ==
    /\ IF outcome = "ok"
       THEN uiPc' = "execed" /\ dispatcher' = Dispatch("ClosedExec")
       ELSE UNCHANGED <<uiPc, dispatcher>>
    /\ UNCHANGED <<input, events, sent, entries, icons, killed, fence,
                   cancelledEarly, stdout>>

\* Action::PrintAndClose(message): println!, and the function returns.
HandlePrintAndClose(message) ==
    /\ stdout' = Append(stdout, message)
    /\ dispatcher' = Dispatch("ClosedAfterPrint")
    /\ UNCHANGED <<input, events, sent, entries, icons, uiPc, killed, fence,
                   cancelledEarly>>

\* Action::Fork: fork().expect("failed to fork"); this process is the one
\* that called fork, so a successful fork returns Fork::Parent here.
HandleFork(outcome) ==
    /\ IF outcome = "ok"
       THEN uiPc' = uiPc /\ dispatcher' = Dispatch("ClosedFork")
       ELSE uiPc' = "panicked" /\ dispatcher' = dispatcher
    /\ UNCHANGED <<input, events, sent, entries, icons, killed, fence,
                   cancelledEarly, stdout>>

\* Action::WaitAndClose: with_manager(|m| m.wait()) on the UI thread; wait()
\* returns at once when nothing is in flight.
HandleWaitAndClose ==
    /\ IF child = "running"
       THEN uiPc' = "waitChild" /\ dispatcher' = dispatcher
       ELSE uiPc' = uiPc /\ dispatcher' = Dispatch("ClosedAfterWait")
    /\ UNCHANGED <<input, events, sent, entries, icons, killed, fence,
                   cancelledEarly, stdout>>

\* Keal::handle_action
HandleAction(m, outcome) ==
    CASE m.kind = "None" -> HandleNone
      [] m.kind = "ChangeInput" -> HandleChangeInput(m.text)
      [] m.kind = "ChangeQuery" -> HandleChangeQuery(m.text)
      [] m.kind = "Exec" -> HandleExec(outcome)
      [] m.kind = "PrintAndClose" -> HandlePrintAndClose(m.text)
      [] m.kind = "Fork" -> HandleFork(outcome)
      [] m.kind = "WaitAndClose" -> HandleWaitAndClose

\* Mutant: Keal keeps no sender of its own.
SendersNoOwn ==
    (IF workerPc # "dead" THEN {"manager"} ELSE {})
    \cup (IF iconPc = "loading" THEN {"icon"} ELSE {})

\* The senders of the message channel that are still alive: Keal's own
\* message_sender, the manager's clone, the icon thread's clone.
Senders ==
    {"keal"} \cup (IF workerPc # "dead" THEN {"manager"} ELSE {})
             \cup (IF iconPc = "loading" THEN {"icon"} ELSE {})

\* The match on the message received.
HandleMessage(m, outcome) ==
    CASE m.type = "TextInput" ->
            /\ UpdateInput(m.text, TRUE)
            /\ UNCHANGED <<entries, icons, uiPc, killed, fence, cancelledEarly,
                           dispatcher, stdout>>
      [] m.type = "Launch" ->
            /\ events' = ManagerSend(events, LaunchEvent(m.label))
            /\ UNCHANGED <<input, sent, entries, icons, uiPc, killed, fence,
                           cancelledEarly, dispatcher, stdout>>
      [] m.type = "IconCacheLoaded" ->
            /\ icons' = "loaded"
            /\ UNCHANGED <<input, events, sent, entries, uiPc, killed, fence,
                           cancelledEarly, dispatcher, stdout>>
      [] m.type = "Entries" ->
            /\ entries' = EntriesNew(m.list)
            /\ UNCHANGED <<input, events, sent, icons, uiPc, killed, fence,
                           cancelledEarly, dispatcher, stdout>>
      [] m.type = "Action" -> HandleAction(m, outcome)

\* What the history keeps of a handled message.
Handled(m) ==
    IF m.type = "Action"
    THEN [kind |-> m.kind, labelled |-> m.labelled, resolved |-> m.resolved,
          via |-> m.via]
    ELSE lastAction

\* How the exec or fork a frame performs may end; "none" when the frame
\* performs neither.
Outcomes ==
    IF HeadIs(msgs, "Action") /\ Head(msgs).kind \in {"Exec", "Fork"}
    THEN {"ok", "fail"} ELSE {"none"}

\* One call of Keal::update: the selection keys, then at most one message.
Update(down, up, outcome) ==
    /\ uiPc = "running"
    /\ selected' = KeySelect(selected, Len(entries), down, up)
    /\ IF msgs = <<>>
       THEN /\ uiPc' = IF Senders = {} THEN "panicked" ELSE uiPc
            /\ UNCHANGED <<input, entries, icons, msgs, events, killed, sent,
                           fence, observed, cancelledEarly, lastAction, dispatcher,
                           stdout>>
       ELSE /\ msgs' = TryRecvRest(msgs)
            /\ HandleMessage(Head(msgs), outcome)
            /\ lastAction' = Handled(Head(msgs))
            /\ observed' = IF Head(msgs).type = "Entries"
                           THEN [observed EXCEPT ![Head(msgs).gen] = @ + 1]
                           ELSE observed
    /\ UNCHANGED <<iconPc, workerPc, gen, wtext, current, mentries, lock,
                   child, budget>>

\* Mutant: the pass begins without the lock, whoever holds it.
GetDataUnlocked ==
    /\ uiPc' = "rendering"
    /\ lock' = lock

\* manager.get_data() at the head of the render pass: the lock on the
\* matcher data is taken, or the UI thread waits for it.
GetData ==
    IF lock = "free"
    THEN uiPc' = "rendering" /\ lock' = "ui"
    ELSE uiPc' = "waitLock" /\ lock' = lock

\* Keal::render begins: `data` borrows from the guard get_data() returns,
\* which therefore lives to the end of the function.
Render ==
    /\ uiPc = "running"
    /\ GetData
    /\ UNCHANGED <<input, selected, entries, icons, chanVars, workerPc, gen,
                   wtext, killed, current, mentries, child, histVars>>

\* The blocked get_data() returns once the worker released the lock.
RenderAcquire ==
    /\ uiPc = "waitLock"
    /\ lock = "free"
    /\ uiPc' = "rendering"
    /\ lock' = "ui"
    /\ UNCHANGED <<input, selected, entries, icons, chanVars, workerPc, gen,
                   wtext, killed, current, mentries, child, histVars>>

\* Keal::render returns: the spans were derived from data.matcher and
\* data.pattern (MatchSpan::new), nothing that is modelled changed, and
\* the guard is dropped.
RenderEnd ==
    /\ uiPc = "rendering"
    /\ uiPc' = "running"
    /\ lock' = IF lock = "ui" THEN "free" ELSE lock
    /\ UNCHANGED <<input, selected, entries, icons, chanVars, workerPc, gen,
                   wtext, killed, current, mentries, child, histVars>>

\* The blocked wait() returns once the child is gone.
WaitReturns ==
    /\ uiPc = "waitChild"
    /\ child = "none"
    /\ uiPc' = "running"
    /\ dispatcher' = Dispatch("ClosedAfterWait")
    /\ UNCHANGED <<input, selected, entries, icons, chanVars, workerVars,
                   budget, sent, fence, observed, cancelledEarly, lastAction, stdout>>

\* ------------------------------------------- the worker thread (spec 4.1)

\* UpdateInput taken by the idle worker: the generation is incremented and
\* the debounce timer started.
WorkerUpdateInput ==
    /\ Alive
    /\ workerPc = "idle"
    /\ HeadIs(events, "UpdateInput")
    /\ events' = Tail(events)
    /\ gen' = gen + 1
    /\ wtext' = Head(events).text
    /\ killed' = FALSE
    /\ workerPc' = "debounce"
    /\ UNCHANGED <<uiVars, msgs, iconPc, current, mentries, lock, child, histVars>>

\* UpdateInput arriving while a timer is pending or a pass is running: the
\* previous generation is cancelled and the timer restarted.
WorkerSupersede ==
    /\ Alive
    /\ workerPc \in {"debounce", "query"}
    /\ HeadIs(events, "UpdateInput")
    /\ events' = Tail(events)
    /\ cancelledEarly' = cancelledEarly \cup {gen}
    /\ gen' = gen + 1
    /\ wtext' = Head(events).text
    /\ killed' = FALSE
    /\ lock' = IF lock = "worker" THEN "free" ELSE lock
    /\ workerPc' = "debounce"
    /\ UNCHANGED <<uiVars, msgs, iconPc, current, mentries, child,
                   budget, sent, fence, observed, lastAction, dispatcher, stdout>>

\* The debounce timer fires, no further UpdateInput having arrived: a killed
\* search ends here, any other starts its pass under the lock on the
\* matcher data, once the lock is free.
WorkerTimerFires ==
    /\ Alive
    /\ workerPc = "debounce"
    /\ ~HeadIs(events, "UpdateInput")
    /\ IF killed
       THEN /\ workerPc' = "idle"
            /\ UNCHANGED <<lock, current>>
       ELSE /\ lock = "free"
            /\ workerPc' = "query"
            /\ lock' = "worker"
            /\ current' = ActivePlugin(wtext)
    /\ killed' = FALSE
    /\ UNCHANGED <<uiVars, chanVars, gen, wtext, mentries, child, histVars>>

\* Mutant: the result is emitted whether or not the search was killed.
WorkerEmitAlways(q, g, list) == Append(q, EntriesMsg(g, list))

\* What the finished pass of generation g puts on the message channel: a
\* cancelled generation's result is dropped.
WorkerEmit(q, g, list) == IF killed THEN q ELSE Append(q, EntriesMsg(g, list))

\* The pass ends.
WorkerFinishPass ==
    /\ Alive
    /\ workerPc = "query"
    /\ msgs' = WorkerEmit(msgs, gen, QueryPass(wtext))
    /\ mentries' = IF killed THEN mentries ELSE QueryPass(wtext)
    /\ killed' = FALSE
    /\ lock' = IF lock = "worker" THEN "free" ELSE lock
    /\ workerPc' = "idle"
    /\ UNCHANGED <<uiVars, events, iconPc, gen, wtext, current, child, histVars>>

\* A label resolves when it names one of the current entries.
Resolves(l) == l \in Labels(mentries)

\* Launch: the label is resolved and the plugin's action emitted; an
\* unresolved label gives Action::None.  A plugin answering WaitAndClose has
\* spawned the child that wait() waits for.
WorkerLaunch(a) ==
    /\ Alive
    /\ workerPc = "idle"
    /\ HeadIs(events, "Launch")
    /\ events' = Tail(events)
    /\ IF Resolves(Head(events).label)
       THEN /\ msgs' = Append(msgs, ActionMsg(a[1], a[2], Head(events).label, TRUE))
            /\ child' = IF a[1] = "WaitAndClose" THEN "running" ELSE child
       ELSE /\ msgs' = Append(msgs, ActionMsg("None", <<>>, Head(events).label, FALSE))
            /\ child' = child
    /\ UNCHANGED <<uiVars, iconPc, workerPc, gen, wtext, killed, current,
                   mentries, lock, histVars>>

\* The spawned child ends.
ChildExits ==
    /\ Alive
    /\ child = "running"
    /\ child' = "none"
    /\ UNCHANGED <<uiVars, chanVars, workerPc, gen, wtext, killed, current,
                   mentries, lock, histVars>>

\* The worker thread terminates unexpectedly (between two events).
WorkerDies ==
    /\ Alive
    /\ workerPc = "idle"
    /\ workerPc' = "dead"
    /\ UNCHANGED <<uiVars, chanVars, gen, wtext, killed, current, mentries,
                   lock, child, histVars>>

Next ==
    \/ \E t \in UserTexts : UserTextInput(t)
    \/ \E l \in Labels(entries) \cup {NoLabel} : UserLaunch(l)
    \/ IconThread
    \/ \E down, up \in BOOLEAN, outcome \in Outcomes : Update(down, up, outcome)
    \/ Render
    \/ RenderAcquire
    \/ RenderEnd
    \/ WaitReturns
    \/ WorkerUpdateInput
    \/ WorkerSupersede
    \/ WorkerTimerFires
    \/ WorkerFinishPass
    \/ \E a \in PluginActions : WorkerLaunch(a)
    \/ ChildExits
    \/ WorkerDies

Spec == Init /\ [][Next]_vars

\* ------------------------------------------ one search pass over any text

\* The longest text typed.
MaxLen == 3

\* The characters of a text: letters of the candidates, the two prefixes,
\* the space.
Chars == {"a", "b", "r", "p", SP}

RECURSIVE TextsUpTo(_)
TextsUpTo(n) ==
    IF n = 0 THEN { <<>> }
    ELSE TextsUpTo(n - 1)
         \cup { Append(t, c) : t \in TextsUpTo(n - 1), c \in Chars }

\* A fresh Keal whose first message was TextInput(t): update_input(t, true)
\* has run and the worker has taken the event and started the debounce
\* timer of generation 1.
PassInit ==
    \E t \in TextsUpTo(MaxLen) :
        /\ input = t
        /\ selected = 0
        /\ entries = <<>>
        /\ icons = "default"
        /\ msgs = <<>>
        /\ uiPc = "running"
        /\ iconPc = "loading"
        /\ events = <<>>
        /\ workerPc = "debounce"
        /\ gen = 1
        /\ wtext = t
        /\ killed = FALSE
        /\ current = "none"
        /\ mentries = <<>>
        /\ lock = "free"
        /\ child = "none"
        /\ budget = MaxUser - 1
        /\ sent = 1
        /\ fence = 0
        /\ observed = [g \in 1..MaxUser |-> 0]
        /\ cancelledEarly = {}
        /\ lastAction = NoAction
        /\ dispatcher = "Idle"
        /\ stdout = <<>>

\* The pass of that generation and the frames of the UI that receive it.
PassNext ==
    \/ WorkerTimerFires
    \/ WorkerFinishPass
    \/ \E down, up \in BOOLEAN, outcome \in Outcomes : Update(down, up, outcome)

PassSpec == PassInit /\ [][PassNext]_vars

\* ------------------------------------------------------------ properties

Gens == 1..MaxUser

\* This step is Keal::update taking a message off the channel (no other
\* step shortens the channel).
UiReceives == msgs # <<>> /\ msgs' = Tail(msgs)

UiReceivesAction(kind) ==
    UiReceives /\ Head(msgs).type = "Action" /\ Head(msgs).kind = kind

\* This step is the worker taking an event off the event channel.
WorkerTakes(type) == HeadIs(events, type) /\ events' = Tail(events)

\* C1: the result of a generation that was cancelled before its pass
\* completed is dropped inside the worker: no Entries message of such a
\* generation is ever on the channel, so the UI, which applies whatever it
\* receives, has received none.
C1_StaleDroppedInWorker ==
    /\ \A i \in 1..Len(msgs) :
          msgs[i].type = "Entries" => msgs[i].gen \notin cancelledEarly
    /\ \A g \in cancelledEarly : observed[g] = 0

\* A generation was cancelled in flight and the UI has since received the
\* entries of a later one.
C1_Witness ==
    \E g \in cancelledEarly : \E h \in Gens : h > g /\ observed[h] > 0

\* C2 (as claimed): after kill() followed by a new UpdateInput, the UI
\* receives no Entries of a generation older than the new one.
C2_NoOlderAfterKill ==
    [][\A g \in Gens : observed'[g] > observed[g] => g >= fence]_vars

\* C3: the generations are those of the UpdateInput events the UI sent; the
\* UI receives at most one Entries message per generation, and none for a
\* generation cancelled (superseded or killed) while in flight.
C3_AtMostOnePerGeneration ==
    \A g \in Gens :
        /\ observed[g] <= 1
        /\ observed[g] > 0 => g <= sent
        /\ g \in cancelledEarly => observed[g] = 0

\* One generation was cancelled in flight and received zero times, another
\* completed and was received once.
C3_Witness ==
    /\ \E g \in Gens : g \in cancelledEarly /\ observed[g] = 0
    /\ \E g \in Gens : g \notin cancelledEarly /\ observed[g] = 1

\* C4 (as claimed): the selection index is within the entry list, and 0
\* when the list is empty.
C4_SelectedInRange ==
    IF entries = <<>> THEN selected = 0 ELSE selected <= Len(entries) - 1

\* C5 (as claimed): once the dispatcher reached a terminal state, the
\* process sends no further Event and applies no further Message.
C5_TerminalAbsorbing ==
    [][dispatcher # "Idle" => ~UiReceives /\ Len(events') <= Len(events)]_vars

\* C6: handling ChangeQuery(text) makes the input "<prefix> <text>" when
\* current() reports a plugin and text otherwise, sends exactly that as an
\* UpdateInput with from_user = false, and leaves the UI running.
C6_ChangeQueryComposes ==
    [][UiReceivesAction("ChangeQuery") =>
        LET text == Head(msgs).text
            next == IF current = "none" THEN text
                    ELSE Prefix(current) \o <<SP>> \o text
        IN  /\ input' = next
            /\ events' = Append(events, [type |-> "UpdateInput", text |-> next,
                                         from_user |-> FALSE])
            /\ uiPc' = "running"]_vars

\* ChangeQuery("b") was handled while the plugin of prefix "r" was active:
\* the input is "r b", which nothing else produces.
C6_Witness ==
    /\ lastAction.kind = "ChangeQuery"
    /\ input = <<"r", SP, "b">>

\* C7 (as claimed): the UI thread never waits, neither for the lock nor for
\* a spawned child.
C7_UiNeverBlocks == uiPc \notin {"waitLock", "waitChild"}

\* C8 (as claimed): a failed exec is reported on the print path, and a
\* failed fork does not crash the process.
C8_SpawnFailureSurfaced ==
    [][/\ (UiReceivesAction("Exec") /\ uiPc' # "execed") => stdout' # stdout
       /\ UiReceivesAction("Fork") => uiPc' # "panicked"]_vars

\* C9 (as claimed): with the worker thread gone and nothing left on the
\* channel, a frame of the UI (here one whose keys move the selection) ends
\* in the panic of its poll.
C9_DeadWorkerIsFatal ==
    [][(workerPc = "dead" /\ msgs = <<>> /\ selected' # selected)
       => uiPc' = "panicked"]_vars

\* C10: a Launch whose label matches no current entry is answered with
\* Action::None, and handling Action::None changes nothing (the selection
\* moves only by the keys of that frame) and sends nothing.
C10_UnresolvedIsNoOp ==
    [][/\ (WorkerTakes("Launch") /\ Head(events).label \notin Labels(mentries))
          => /\ Len(msgs') = Len(msgs) + 1
             /\ msgs'[Len(msgs')].type = "Action"
             /\ msgs'[Len(msgs')].kind = "None"
       /\ UiReceivesAction("None")
          => /\ UNCHANGED <<input, entries, icons, uiPc, events>>
             /\ \E down, up \in BOOLEAN :
                   selected' = KeySelect(selected, Len(entries), down, up)]_vars

\* The UI handled the Action::None of a launch whose label, taken from an
\* entry on display, no longer matched any current entry.
C10_Witness ==
    /\ lastAction.kind = "None"
    /\ lastAction.labelled
    /\ ~lastAction.resolved

\* The entry lists delivered so far: those of the Entries messages on the
\* channel and, once the UI received one, the list it displays.
Delivered ==
    { msgs[i].list : i \in { j \in 1..Len(msgs) : msgs[j].type = "Entries" } }
    \cup (IF \E g \in Gens : observed[g] > 0 THEN {entries} ELSE {})

\* Place of a plugin in the registered, ordered list.
RegisteredAt(p) == CHOOSE i \in 1..Len(Plugins) : Plugins[i] = p

\* e comes before f in plugin-registration-then-entry-registration order.
RegBefore(e, f) ==
    \/ RegisteredAt(e.plugin) < RegisteredAt(f.plugin)
    \/ e.plugin = f.plugin /\ e.index < f.index

\* The plugins asked the empty query by the text of the pass: all of them
\* for the empty text, one for a text that is just its "<prefix> ".
EmptyQueryPlugins ==
    IF wtext = <<>> THEN { Plugins[i] : i \in 1..Len(Plugins) }
    ELSE { Plugins[i] : i \in { j \in 1..Len(Plugins) :
                                   wtext = Prefix(Plugins[j]) \o <<SP>> } }

\* C11: every delivered entry list is sorted by non-increasing rank, and
\* entries of equal rank keep plugin-registration-then-entry-registration
\* order; for the empty query the list holds every candidate of the plugins
\* asked, all of one rank, in registration order.
C11_SortedStable ==
    \A l \in Delivered :
        /\ \A i, j \in 1..Len(l) :
              i < j => /\ l[i].rank >= l[j].rank
                       /\ l[i].rank = l[j].rank => RegBefore(l[i], l[j])
        /\ EmptyQueryPlugins # {} =>
              /\ Labels(l) = UNION { { [plugin |-> p, index |-> k] :
                                           k \in 1..Len(Candidates(p)) } :
                                       p \in EmptyQueryPlugins }
              /\ \A i, j \in 1..Len(l) : l[i].rank = l[j].rank
              /\ \A i, j \in 1..Len(l) : i < j => RegBefore(l[i], l[j])

\* The UI displays the list delivered for the empty text: the entries of
\* both plugins, all of one rank, three entries in all.
C11_Witness ==
    /\ wtext = <<>>
    /\ observed[1] = 1
    /\ Len(entries) = 3
    /\ entries[1].rank = entries[3].rank

\* The registered plugins whose "<prefix> " the text of the pass begins with.
Addressed ==
    { p \in { Plugins[i] : i \in 1..Len(Plugins) } :
        StartsWith(wtext, Prefix(p) \o <<SP>>) }

\* The labels of the candidates of plugin p that query q matches.
Matches(p, q) ==
    { [plugin |-> p, index |-> k] :
        k \in { n \in 1..Len(Candidates(p)) : IsSubseq(q, Candidates(p)[n]) } }

\* List l is made of exactly the matches of query q among the plugins ps,
\* each once, ranked against q.
ResultOf(l, ps, q) ==
    /\ Labels(l) = UNION { Matches(p, q) : p \in ps }
    /\ Len(l) = Cardinality(Labels(l))
    /\ \A i \in 1..Len(l) : l[i].rank = Rank(q, l[i].name)

C13_ChangeInputVerbatim ==
    [][UiReceivesAction("ChangeInput") =>
        /\ killed' = (killed \/ workerPc \in {"debounce", "query"})
        /\ workerPc \in {"debounce", "query"} => gen \in cancelledEarly'
        /\ sent' = sent + 1
        /\ sent' \notin cancelledEarly'
        /\ input' = Head(msgs).text
        /\ events' = Append(events, [type |-> "UpdateInput",
                                     text |-> Head(msgs).text,
                                     from_user |-> FALSE])
        /\ uiPc' = "running"
        /\ dispatcher' = dispatcher]_vars

\* ChangeInput("b") was handled while a search was in flight and the
\* plugin of prefix "r" was active: the search is killed, the input is "b"
\* and the event just sent is still on the event channel.
C13_Witness ==
    /\ lastAction.kind = "ChangeInput"
    /\ killed
    /\ current = "run"
    /\ input = <<"b">>
    /\ events # <<>>
    /\ events[Len(events)] = [type |-> "UpdateInput", text |-> <<"b">>,
                              from_user |-> FALSE]
    /\ fence = sent

\* C14: a frame that finds the channel empty returns at once, having
\* changed nothing but the selection; whenever the channel gets shorter it
\* loses exactly its oldest message, and that message is the one applied;
\* every other change of the channel appends behind the messages waiting.
\* So messages are applied one per frame in the order they were placed,
\* none skipped.
C14_PollsInOrder ==
    [][/\ (msgs = <<>> /\ selected' # selected)
          => /\ uiPc' = "running"
             /\ UNCHANGED <<input, entries, icons, msgs, events>>
       /\ Len(msgs') < Len(msgs)
          => /\ msgs' = Tail(msgs)
             /\ Head(msgs).type = "TextInput" => input' = Head(msgs).text
             /\ Head(msgs).type = "Launch"
                  => events' = Append(events, [type |-> "Launch",
                                               label |-> Head(msgs).label])
             /\ Head(msgs).type = "IconCacheLoaded" => icons' = "loaded"
             /\ Head(msgs).type = "Entries" => entries' = Head(msgs).list
             /\ Head(msgs).type = "Action" => lastAction'.kind = Head(msgs).kind
       /\ Len(msgs') >= Len(msgs)
          => SubSeq(msgs', 1, Len(msgs)) = msgs]_vars

\* Of the messages the user produced the first, TextInput("b"), has been
\* applied and the second, TextInput("r a"), waits on the channel, ahead
\* of the entries computed for the first.
C14_Witness ==
    /\ input = <<"b">>
    /\ sent = 1
    /\ Len(msgs) >= 2
    /\ msgs[Len(msgs) - 1] = [type |-> "TextInput", text |-> <<"r", SP, "a">>]
    /\ msgs[Len(msgs)].type = "Entries"

\* C15: the render pass reads the matcher data only while the UI thread
\* holds the lock, the worker's pass runs only while the worker holds it,
\* so the two never overlap; and the lock is held by the UI only during a
\* render pass and by the worker only during a pass of its own.
C15_MatcherUnderLock ==
    /\ uiPc = "rendering" => lock = "ui"
    /\ workerPc = "query" => lock = "worker"
    /\ ~(uiPc = "rendering" /\ workerPc = "query")
    /\ lock = "ui" => uiPc = "rendering"
    /\ lock = "worker" => workerPc = "query"

\* A render pass over delivered entries holds the lock while the worker,
\* its debounce timer pending on a search not killed, has yet to start the
\* next pass.
C15_Witness ==
    /\ uiPc = "rendering"
    /\ lock = "ui"
    /\ entries # <<>>
    /\ workerPc = "debounce"
    /\ ~killed
    /\ ~HeadIs(events, "UpdateInput")

\* The text of the UpdateInput event the UI sent last: that of the last one
\* still on the event channel or, all of them taken, the text the worker
\* took last; empty when none was sent.
LastSentText ==
    LET ups == { i \in 1..Len(events) : events[i].type = "UpdateInput" }
    IN  IF ups # {} THEN events[CHOOSE i \in ups : \A j \in ups : j <= i].text
        ELSE IF sent > 0 THEN wtext
        ELSE <<>>

\* This step is Keal::update applying a message that sets the input.
SetsInput ==
    /\ UiReceives
    /\ \/ Head(msgs).type = "TextInput"
       \/ Head(msgs).type = "Action" /\ Head(msgs).kind \in {"ChangeInput", "ChangeQuery"}

\* C16: the input is the text of the UpdateInput event sent last (empty if
\* none was sent); every step that sets or changes the input appends
\* exactly one UpdateInput event carrying the new input, from_user being
\* true for a TextInput message and false otherwise; and an UpdateInput
\* event is appended by such steps only.
C16_InputIsLastSent ==
    [][/\ input = LastSentText
       /\ input' = LastSentText'
       /\ (SetsInput \/ input' # input)
          => /\ SetsInput
             /\ events' = Append(events, [type |-> "UpdateInput", text |-> input',
                                          from_user |-> Head(msgs).type = "TextInput"])
             /\ sent' = sent + 1
       /\ (Len(events') > Len(events) /\ events'[Len(events')].type = "UpdateInput")
          => SetsInput]_vars

\* ChangeQuery composed "r b": it is the input and the text of the event on
\* the event channel, sent with from_user = false, after an earlier event
\* of another text was sent with from_user = true.
C16_Witness ==
    /\ input = <<"r", SP, "b">>
    /\ sent = 2
    /\ events # <<>>
    /\ events[Len(events)] = [type |-> "UpdateInput", text |-> <<"r", SP, "b">>,
                              from_user |-> FALSE]
    /\ wtext = <<"r", SP, "a">>

\* C17 (as claimed): a ChangeQuery(text) that answers the launch of an
\* entry of plugin p, p being the active plugin then, makes the input
\* "<p's prefix> <text>", whatever was sent in between.
C17_ComposesLaunchPrefix ==
    [][(UiReceivesAction("ChangeQuery") /\ Head(msgs).via # "none")
       => input' = Prefix(Head(msgs).via) \o <<SP>> \o Head(msgs).text]_vars

\* C17 (amended): such a ChangeQuery(text) makes the input "<p's prefix>
\* <text>" when current() still reports p as the action is handled; when a
\* pass for a later text has started in between, the prefix in front is
\* that of the plugin current() reports then, and text stands alone if it
\* reports none.
C17_ComposesCurrentPrefix ==
    [][(UiReceivesAction("ChangeQuery") /\ Head(msgs).via # "none")
       => input' = IF current = Head(msgs).via
                   THEN Prefix(Head(msgs).via) \o <<SP>> \o Head(msgs).text
                   ELSE IF current = "none" THEN Head(msgs).text
                   ELSE Prefix(current) \o <<SP>> \o Head(msgs).text]_vars

\* ChangeQuery("b") answered the launch of an entry of the plugin of prefix
\* "r" while that plugin was active; by the time the UI handled it a pass
\* for a later text had left no plugin active, and the input sent is "b".
C17_Witness ==
    /\ lastAction.kind = "ChangeQuery"
    /\ lastAction.via = "run"
    /\ current = "none"
    /\ input = <<"b">>
    /\ events # <<>>
    /\ events[Len(events)] = [type |-> "UpdateInput", text |-> <<"b">>,
                              from_user |-> FALSE]

\* C18: the channel Keal receives on always has a live sender, Keal's own,
\* so no frame ends in the panic of a disconnected channel: the UI thread
\* panics in no step but the handling of a Fork action, also once the
\* worker thread and the icon thread are gone.
C18_NeverDisconnected ==
    [][(uiPc' = "panicked" /\ uiPc # "panicked")
       => (msgs # <<>> /\ Head(msgs).type = "Action"
                       /\ Head(msgs).kind = "Fork")]_vars

\* The worker thread is dead, the icon thread has ended and its message
\* was received; the channel is empty and the UI thread goes on running
\* frame after frame.
C18_Witness ==
    /\ workerPc = "dead"
    /\ iconPc = "done"
    /\ icons = "loaded"
    /\ msgs = <<>>
    /\ uiPc = "running"

====
